---- MODULE Spec2Model ----
(***************************************************************************)
(* Model of OneTimePadProtocol (src/protocol.py): a pad sequence shared by *)
(* four parties, each consuming pad indices from its own queue.            *)
(***************************************************************************)
EXTENDS Integers, Sequences, FiniteSets, TLC

\* Bounds of the model: the constructor's arguments n, L and d are drawn
\* from 1..MaxN, 1..MaxL and 0..MaxD, and each of the n pads is any value of
\* L bits.
MaxN == 2
MaxL == 1
MaxD == 1
\* In the specifications of the allocation alone n is drawn from 1..MaxAllocN,
\* with pads of one bit.
MaxAllocN == 4
\* In the specification with fairness n is drawn from 1..MaxFairN.
MaxFairN == 3
\* The threads that call send_message concurrently, one call each.
NThreads == 2

VARIABLES
    n,              \* self.n: total of pads
    L,              \* self.L: length of a pad in bits
    d,              \* self.d: max pad gap
    pad_sequence,   \* self.pad_sequence: the n pads (1-based here, 0-based in the code)
    parties,        \* self.parties: party -> queue of pad indices left
    last_used_pad,  \* self.last_used_pad: party -> last index popped, -1 if none
    ret,            \* how the last call ended: its arguments, exception, return value
    used,           \* history: party -> the pad indices it popped, in order
    calls           \* thread -> the send_message call it is in (concurrent callers)

vars == <<n, L, d, pad_sequence, parties, last_used_pad, ret, used, calls>>

\* The keys of self.parties.
Party == {"Alice", "Charlie", "Bob", "Ellen"}

\* The exceptions the methods raise ("" when the call returned).
NoPads(sender) == "ValueError: No available pads for " \o sender
Secrecy == "ValueError: Secrecy condition violated"
IndexError == "IndexError: list index out of range"
PopError == "IndexError: pop from empty list"

\* The concurrent callers, and a thread that is in no call.
Thread == 1 .. NThreads
Idle == [pc |-> "idle", sender |-> "", message |-> 0, popped |-> <<>>,
         exc |-> "", value |-> <<>>]

----------------------------------------------------------------------------
\* Pure helpers

RECURSIVE Pow2(_)
Pow2(k) == IF k = 0 THEN 1 ELSE 2 * Pow2(k - 1)

\* Python's a ^ b on non-negative integers, bit by bit.
RECURSIVE BitXor(_, _)
BitXor(a, b) ==
    IF a = 0 THEN b
    ELSE IF b = 0 THEN a
    ELSE (((a % 2) + (b % 2)) % 2) + 2 * BitXor(a \div 2, b \div 2)

\* Python's list(range(start, stop, step)) for step # 0.
RECURSIVE PyRange(_, _, _)
PyRange(start, stop, step) ==
    IF (step > 0 /\ start < stop) \/ (step < 0 /\ start > stop)
    THEN <<start>> \o PyRange(start + step, stop, step)
    ELSE <<>>

\* What random.getrandbits(k) can return.
getrandbits(k) == 0 .. (Pow2(k) - 1)

\* Python's lst[i] on a list of length Len(lst): TRUE when it does not raise.
InList(lst, i) == -Len(lst) <= i /\ i < Len(lst)
\* Its value: negative i counts from the end.
ListGet(lst, i) == IF i >= 0 THEN lst[i + 1] ELSE lst[Len(lst) + i + 1]

\* Mutant of xor_encrypt: + typed for ^.
xor_encrypt_plus(message, pad) == message + pad

xor_encrypt(message, pad) == BitXor(message, pad)

xor_decrypt(ciphertext, pad) == BitXor(ciphertext, pad)

\* The pads distribution __init__ computes for n pads.
Distribution(nn) ==
    [p \in Party |->
        CASE p = "Alice"   -> PyRange(2, nn, 2)
          [] p = "Charlie" -> PyRange(1, nn, 2)
          [] p = "Bob"     -> PyRange(nn, 0, -2)
          [] p = "Ellen"   -> PyRange(nn - 1, 0, -2)]

Range(s) == {s[i] : i \in DOMAIN s}

\* The pad sequences the constructor can generate for nn pads of LL bits:
\* each pad is drawn on its own.
PadSequences(nn, LL) == [1 .. nn -> getrandbits(LL)]

\* The state a new protocol object has, but for its arguments and pads.
Constructed ==
    /\ parties = Distribution(n)
    /\ last_used_pad = [p \in Party |-> -1]
    /\ ret = [op |-> "__init__", sender |-> "", args |-> <<>>, exc |-> "", value |-> <<>>]
    /\ used = [p \in Party |-> <<>>]
    /\ calls = [t \in Thread |-> Idle]

----------------------------------------------------------------------------
\* Construction: OneTimePadProtocol(n, L, d)

Init ==
    /\ n \in 1 .. MaxN
    /\ L \in 1 .. MaxL
    /\ d \in 0 .. MaxD
    /\ pad_sequence \in PadSequences(n, L)
    /\ Constructed

----------------------------------------------------------------------------
\* Operations

\* Mutant of send_message: the emptiness test is off by one, so the last pad
\* of a queue is never handed out.
send_message_keeps_last(sender, message) ==
    IF Len(parties[sender]) <= 1
    THEN
        /\ ret' = [op |-> "send_message", sender |-> sender, args |-> <<message>>,
                   exc |-> NoPads(sender), value |-> <<>>]
        /\ UNCHANGED <<n, L, d, pad_sequence, parties, last_used_pad, used, calls>>
    ELSE
        LET pad_index == Head(parties[sender]) IN
        /\ parties' = [parties EXCEPT ![sender] = Tail(@)]
        /\ last_used_pad' = [last_used_pad EXCEPT ![sender] = pad_index]
        /\ used' = [used EXCEPT ![sender] = Append(@, pad_index)]
        /\ ret' =
            IF InList(pad_sequence, pad_index)
            THEN [op |-> "send_message", sender |-> sender, args |-> <<message>>,
                  exc |-> "",
                  value |-> <<BitXor(message, ListGet(pad_sequence, pad_index)),
                              pad_index>>]
            ELSE [op |-> "send_message", sender |-> sender, args |-> <<message>>,
                  exc |-> IndexError, value |-> <<>>]
        /\ UNCHANGED <<n, L, d, pad_sequence, calls>>

\* Mutant of send_message: pop() for pop(0), the queue loses its last entry.
send_message_pops_last(sender, message) ==
    IF parties[sender] = <<>>
    THEN
        /\ ret' = [op |-> "send_message", sender |-> sender, args |-> <<message>>,
                   exc |-> NoPads(sender), value |-> <<>>]
        /\ UNCHANGED <<n, L, d, pad_sequence, parties, last_used_pad, used, calls>>
    ELSE
        LET pad_index == parties[sender][Len(parties[sender])] IN
        /\ parties' = [parties EXCEPT ![sender] = SubSeq(@, 1, Len(@) - 1)]
        /\ last_used_pad' = [last_used_pad EXCEPT ![sender] = pad_index]
        /\ used' = [used EXCEPT ![sender] = Append(@, pad_index)]
        /\ ret' =
            IF InList(pad_sequence, pad_index)
            THEN [op |-> "send_message", sender |-> sender, args |-> <<message>>,
                  exc |-> "",
                  value |-> <<BitXor(message, ListGet(pad_sequence, pad_index)),
                              pad_index>>]
            ELSE [op |-> "send_message", sender |-> sender, args |-> <<message>>,
                  exc |-> IndexError, value |-> <<>>]
        /\ UNCHANGED <<n, L, d, pad_sequence, calls>>

\* Mutant of send_message: the index popped is recorded for every party.
send_message_records_all(sender, message) ==
    IF parties[sender] = <<>>
    THEN
        /\ ret' = [op |-> "send_message", sender |-> sender, args |-> <<message>>,
                   exc |-> NoPads(sender), value |-> <<>>]
        /\ UNCHANGED <<n, L, d, pad_sequence, parties, last_used_pad, used, calls>>
    ELSE
        LET pad_index == Head(parties[sender]) IN
        /\ parties' = [parties EXCEPT ![sender] = Tail(@)]
        /\ last_used_pad' = [p \in Party |-> pad_index]
        /\ used' = [used EXCEPT ![sender] = Append(@, pad_index)]
        /\ ret' =
            IF InList(pad_sequence, pad_index)
            THEN [op |-> "send_message", sender |-> sender, args |-> <<message>>,
                  exc |-> "",
                  value |-> <<BitXor(message, ListGet(pad_sequence, pad_index)),
                              pad_index>>]
            ELSE [op |-> "send_message", sender |-> sender, args |-> <<message>>,
                  exc |-> IndexError, value |-> <<>>]
        /\ UNCHANGED <<n, L, d, pad_sequence, calls>>

send_message(sender, message) ==
    IF parties[sender] = <<>>
    THEN
        /\ ret' = [op |-> "send_message", sender |-> sender, args |-> <<message>>,
                   exc |-> NoPads(sender), value |-> <<>>]
        /\ UNCHANGED <<n, L, d, pad_sequence, parties, last_used_pad, used, calls>>
    ELSE
        LET pad_index == Head(parties[sender]) IN
        /\ parties' = [parties EXCEPT ![sender] = Tail(@)]
        /\ last_used_pad' = [last_used_pad EXCEPT ![sender] = pad_index]
        /\ used' = [used EXCEPT ![sender] = Append(@, pad_index)]
        /\ ret' =
            IF InList(pad_sequence, pad_index)
            THEN [op |-> "send_message", sender |-> sender, args |-> <<message>>,
                  exc |-> "",
                  value |-> <<xor_encrypt(message, ListGet(pad_sequence, pad_index)),
                              pad_index>>]
            ELSE [op |-> "send_message", sender |-> sender, args |-> <<message>>,
                  exc |-> IndexError, value |-> <<>>]
        /\ UNCHANGED <<n, L, d, pad_sequence, calls>>

\* What get_message(ciphertext, pad_index) raises or returns when
\* self.pad_sequence is pads.
GetMessageOn(pads, ciphertext, pad_index) ==
    IF InList(pads, pad_index)
    THEN [exc |-> "",
          value |-> <<xor_decrypt(ciphertext, ListGet(pads, pad_index))>>]
    ELSE [exc |-> IndexError, value |-> <<>>]

\* The same in this state.
GetMessage(ciphertext, pad_index) == GetMessageOn(pad_sequence, ciphertext, pad_index)

\* Mutant of get_message: the pad is wiped once it has been read.
get_message_wipes(ciphertext, pad_index) ==
    /\ ret' = [op |-> "get_message", sender |-> "", args |-> <<ciphertext, pad_index>>,
               exc |-> GetMessage(ciphertext, pad_index).exc,
               value |-> GetMessage(ciphertext, pad_index).value]
    /\ pad_sequence' =
        IF InList(pad_sequence, pad_index)
        THEN [pad_sequence EXCEPT
                ![IF pad_index >= 0 THEN pad_index + 1 ELSE n + pad_index + 1] = 0]
        ELSE pad_sequence
    /\ UNCHANGED <<n, L, d, parties, last_used_pad, used, calls>>

get_message(ciphertext, pad_index) ==
    /\ ret' = [op |-> "get_message", sender |-> "", args |-> <<ciphertext, pad_index>>,
               exc |-> GetMessage(ciphertext, pad_index).exc,
               value |-> GetMessage(ciphertext, pad_index).value]
    /\ UNCHANGED <<n, L, d, pad_sequence, parties, last_used_pad, used, calls>>

\* Mutant of enforce_constraints: >= typed for >.
enforce_constraints_ge(sender) ==
    /\ ret' =
        [op |-> "enforce_constraints", sender |-> sender, args |-> <<>>,
         exc |-> IF \E party \in Party :
                        /\ party # sender
                        /\ last_used_pad[sender] - last_used_pad[party] >= d
                 THEN Secrecy ELSE "",
         value |-> <<>>]
    /\ UNCHANGED <<n, L, d, pad_sequence, parties, last_used_pad, used, calls>>

enforce_constraints(sender) ==
    /\ ret' =
        [op |-> "enforce_constraints", sender |-> sender, args |-> <<>>,
         exc |-> IF \E party \in Party :
                        /\ party # sender
                        /\ last_used_pad[sender] - last_used_pad[party] > d
                 THEN Secrecy ELSE "",
         value |-> <<>>]
    /\ UNCHANGED <<n, L, d, pad_sequence, parties, last_used_pad, used, calls>>

\* The calls a client makes: messages below 2^L, pad indices around [0, n).
Send == \E sender \in Party, message \in 0 .. (Pow2(L) - 1) :
            send_message(sender, message)

Receive == \E ciphertext \in 0 .. (Pow2(L) - 1), pad_index \in (-(n + 1)) .. n :
            get_message(ciphertext, pad_index)

Check == \E sender \in Party : enforce_constraints(sender)

Next == Send \/ Receive \/ Check

Spec == Init /\ [][Next]_vars

----------------------------------------------------------------------------
\* The gap-enforcement scenario: OneTimePadProtocol(n=10, L, d=0) on which
\* only Alice sends. No statement of send_message branches on a pad or on
\* the pad length, so the scenario is run with pads of one bit, each of the
\* ten drawn on its own.

InitGap ==
    /\ n = 10
    /\ L = 1
    /\ d = 0
    /\ pad_sequence \in PadSequences(n, L)
    /\ Constructed

SendGap == \E message \in 0 .. (Pow2(L) - 1) : send_message("Alice", message)

NextGap == SendGap

SpecGap == InitGap /\ [][NextGap]_vars

----------------------------------------------------------------------------
\* Concurrent callers: each thread makes one send_message call, which runs
\* statement by statement; the method takes no lock, so the statements of
\* two calls interleave. pc names the line of src/protocol.py to run next.

\* Lines 29-30: the emptiness test, on entry.
Line29(t, sender, message) ==
    /\ calls[t].pc = "idle"
    /\ IF parties[sender] = <<>>
       THEN /\ calls' = [calls EXCEPT ![t] =
                    [pc |-> "done", sender |-> sender, message |-> message,
                     popped |-> <<>>, exc |-> NoPads(sender), value |-> <<>>]]
            /\ ret' = [op |-> "send_message", sender |-> sender, args |-> <<message>>,
                       exc |-> NoPads(sender), value |-> <<>>]
       ELSE /\ calls' = [calls EXCEPT ![t] =
                    [pc |-> "31", sender |-> sender, message |-> message,
                     popped |-> <<>>, exc |-> "", value |-> <<>>]]
            /\ UNCHANGED ret
    /\ UNCHANGED <<n, L, d, pad_sequence, parties, last_used_pad, used>>

\* Line 31: pad_index = self.parties[sender].pop(0).
Line31(t) ==
    /\ calls[t].pc = "31"
    /\ LET sender == calls[t].sender IN
       IF parties[sender] = <<>>
       THEN /\ calls' = [calls EXCEPT ![t].pc = "done", ![t].exc = PopError]
            /\ ret' = [op |-> "send_message", sender |-> sender,
                       args |-> <<calls[t].message>>, exc |-> PopError, value |-> <<>>]
            /\ UNCHANGED <<parties, used>>
       ELSE /\ calls' = [calls EXCEPT ![t].pc = "32",
                                      ![t].popped = <<Head(parties[sender])>>]
            /\ parties' = [parties EXCEPT ![sender] = Tail(@)]
            /\ used' = [used EXCEPT ![sender] = Append(@, Head(parties[sender]))]
            /\ UNCHANGED ret
    /\ UNCHANGED <<n, L, d, pad_sequence, last_used_pad>>

\* Line 32: self.last_used_pad[sender] = pad_index.
Line32(t) ==
    /\ calls[t].pc = "32"
    /\ last_used_pad' = [last_used_pad EXCEPT ![calls[t].sender] = calls[t].popped[1]]
    /\ calls' = [calls EXCEPT ![t].pc = "33"]
    /\ UNCHANGED <<n, L, d, pad_sequence, parties, ret, used>>

\* Lines 33-34: the pad lookup, the encryption and the return.
Line33(t) ==
    /\ calls[t].pc = "33"
    /\ LET pad_index == calls[t].popped[1]
           exc == IF InList(pad_sequence, pad_index) THEN "" ELSE IndexError
           value == IF InList(pad_sequence, pad_index)
                    THEN <<xor_encrypt(calls[t].message, ListGet(pad_sequence, pad_index)),
                           pad_index>>
                    ELSE <<>>
       IN /\ calls' = [calls EXCEPT ![t].pc = "done", ![t].exc = exc, ![t].value = value]
          /\ ret' = [op |-> "send_message", sender |-> calls[t].sender,
                     args |-> <<calls[t].message>>, exc |-> exc, value |-> value]
    /\ UNCHANGED <<n, L, d, pad_sequence, parties, last_used_pad, used>>

Enter == \E t \in Thread, sender \in Party, message \in 0 .. (Pow2(L) - 1) :
            Line29(t, sender, message)

Pop == \E t \in Thread : Line31(t)

Record == \E t \in Thread : Line32(t)

Return == \E t \in Thread : Line33(t)

NextConc == Enter \/ Pop \/ Record \/ Return

SpecConc == Init /\ [][NextConc]_vars

----------------------------------------------------------------------------
\* The allocation alone: more pads, each of one bit (no step of the
\* allocation reads a pad).

InitAlloc ==
    /\ n \in 1 .. MaxAllocN
    /\ L = 1
    /\ d \in 0 .. MaxD
    /\ pad_sequence \in PadSequences(n, L)
    /\ Constructed

SpecAlloc == InitAlloc /\ [][Next]_vars

\* A party that keeps attempting sends: some send_message call of its is
\* eventually made.
SendBy(sender) == \E message \in 0 .. (Pow2(L) - 1) : send_message(sender, message)

\* The allocation with every party attempting sends for ever, for up to
\* MaxFairN pads.
InitFair ==
    /\ n \in 1 .. MaxFairN
    /\ L = 1
    /\ d \in 0 .. MaxD
    /\ pad_sequence \in PadSequences(n, L)
    /\ Constructed

FairSpec ==
    /\ InitFair
    /\ [][Next]_vars
    /\ \A sender \in Party : WF_vars(SendBy(sender))

----------------------------------------------------------------------------
\* Properties

\* The last call was send_message / get_message.
Sent == ret.op = "send_message"
Received == ret.op = "get_message"
\* The last call was a send_message that returned (ciphertext, pad_index).
SentOk == Sent /\ ret.exc = ""
\* Some other party is more than d behind party A.
GapExceeded(A) == \E B \in Party \ {A} : last_used_pad[A] - last_used_pad[B] > d

\* C1: whenever a send by party A returns (ciphertext, pad_index),
\* last_used_pad[A] - last_used_pad[B] <= d for every other party B; a send
\* that leaves a larger difference does not return.
C1_GapInvariant ==
    SentOk => \A B \in Party \ {ret.sender} :
                last_used_pad[ret.sender] - last_used_pad[B] <= d

\* C2: with n=10, d=0 and no other party having sent, Alice's first send
\* returns pad index 2 and her second send (index 4) fails with the secrecy
\* violation, whatever the pads are.
C2_GapScenario ==
    (/\ n = 10 /\ d = 0
     /\ Sent /\ ret.sender = "Alice"
     /\ \A p \in Party \ {"Alice"} : used[p] = <<>>)
    => /\ used["Alice"] = <<2>> => (ret.exc = "" /\ ret.value[2] = 2)
       /\ used["Alice"] = <<2, 4>> => ret.exc = Secrecy

\* C3: no pad index is taken by two sends, of one party or of two.
C3_OneTimeUse ==
    \A p, q \in Party : \A i \in DOMAIN used[p] : \A j \in DOMAIN used[q] :
        (p # q \/ i # j) => used[p][i] # used[q][j]

\* C4: at construction the four parties' allocation sequences are pairwise
\* disjoint.
C4_DisjointAtConstruction ==
    ret.op = "__init__" =>
        \A p, q \in Party : p # q => Range(parties[p]) \cap Range(parties[q]) = {}

\* C5: every pad index in a queue is in [0, n), and a send fails only for
\* want of pads or on the secrecy condition, never on the pad lookup.
C5_ValidIndices ==
    /\ \A p \in Party : \A i \in Range(parties[p]) : 0 <= i /\ i < n
    /\ Sent => ret.exc \in {"", NoPads(ret.sender), Secrecy}

\* C6: what a party has taken followed by what it has left is always its
\* allocation sequence; a send by a party with entries left takes the head
\* of its queue, and a send by a party with none left fails for want of pads
\* and leaves every queue and every last used index as it was. So of a
\* party's sends the first k take one entry each and all later ones fail,
\* however the sends of others interleave.
C6_Exhaustion ==
    [][/\ \A p \in Party : used'[p] \o parties'[p] = used[p] \o parties[p]
       /\ ret'.op = "send_message" =>
            LET sender == ret'.sender IN
            IF parties[sender] = <<>>
            THEN /\ ret'.exc = NoPads(sender)
                 /\ UNCHANGED <<parties, last_used_pad>>
            ELSE /\ ret'.exc # NoPads(sender)
                 /\ parties' = [parties EXCEPT ![sender] = Tail(@)]
                 /\ used'[sender] = Append(used[sender], Head(parties[sender]))
      ]_vars

\* C6 witness: a party that took every entry of its sequence (two or more)
\* fails for want of pads after another party has sent too.
C6_Witness ==
    /\ Sent /\ ret.exc = NoPads(ret.sender)
    /\ Len(used[ret.sender]) >= 2
    /\ used[ret.sender] = Distribution(n)[ret.sender]
    /\ \E q \in Party \ {ret.sender} : used[q] # <<>>

\* C7: when send(sender, m) with m < 2^L returns (ciphertext, pad_index),
\* receive(ciphertext, pad_index) returns m.
C7_RoundTrip ==
    SentOk => GetMessage(ret.value[1], ret.value[2]) =
                [exc |-> "", value |-> <<ret.args[1]>>]

\* C7 witness: a send returned a ciphertext that differs from its message.
C7_Witness == SentOk /\ ret.args[1] # 0 /\ ret.value[1] # ret.args[1]

\* C8: receive fails on the pad lookup exactly when pad_index is outside
\* [0, n), negative values included.
C8_ReceiveRange ==
    Received => (ret.exc = IndexError <=> ~(0 <= ret.args[2] /\ ret.args[2] < n))

\* C10: a receive changes neither the pads nor any queue nor any last used
\* index, and the same receive made again in the state it leaves gives the
\* same result.
C10_IdempotentReceive ==
    [][ret'.op = "get_message" =>
        /\ UNCHANGED <<n, pad_sequence, parties, last_used_pad>>
        /\ GetMessageOn(pad_sequence', ret'.args[1], ret'.args[2]) =
                [exc |-> ret'.exc, value |-> ret'.value]
      ]_vars

\* C10 witness: a receive returned a message, under a nonzero pad, after
\* some party has sent.
C10_Witness ==
    /\ Received /\ ret.exc = ""
    /\ ret.value[1] # ret.args[1]
    /\ \E p \in Party : used[p] # <<>>

\* The parties whose lists __init__ builds upwards / downwards.
Forward == {"Alice", "Charlie"}
Backward == {"Bob", "Ellen"}

\* C11: in every step each party's queue stays as it is or loses its head,
\* which is appended to what the party has taken; the number taken never
\* decreases, and the indices taken are strictly increasing for Alice and
\* Charlie and strictly decreasing for Bob and Ellen.
C11_MonotoneProgress ==
    [][\A p \in Party :
        /\ \/ parties'[p] = parties[p] /\ used'[p] = used[p]
           \/ /\ parties[p] # <<>>
              /\ parties'[p] = Tail(parties[p])
              /\ used'[p] = Append(used[p], Head(parties[p]))
        /\ Len(used'[p]) >= Len(used[p])
        /\ \A i \in 1 .. (Len(used'[p]) - 1) :
              IF p \in Forward THEN used'[p][i] < used'[p][i + 1]
                               ELSE used'[p][i] > used'[p][i + 1]
      ]_vars

\* C11 witness: a party that counts upwards and one that counts downwards
\* have each taken two indices or more.
C11_Witness ==
    /\ Sent
    /\ \E p \in Forward : Len(used[p]) >= 2
    /\ \E p \in Backward : Len(used[p]) >= 2

\* The last call was enforce_constraints.
Checked == ret.op = "enforce_constraints"

\* C12: a check of a sender raises the secrecy violation exactly when some
\* other party's last used index (-1 if it has not sent) is more than d
\* below the sender's, returns otherwise, and changes no state.
C12_ConstraintCheck ==
    [][ret'.op = "enforce_constraints" =>
        /\ UNCHANGED <<n, L, d, pad_sequence, parties, last_used_pad>>
        /\ ret'.exc = Secrecy <=> GapExceeded(ret'.sender)
        /\ ret'.exc = "" <=> ~GapExceeded(ret'.sender)
      ]_vars

\* C12 witness: a check fails although one other party, which has sent, is
\* within d of the sender and only another is too far behind.
C12_Witness ==
    /\ Checked /\ ret.exc = Secrecy
    /\ \E B \in Party \ {ret.sender} :
          /\ last_used_pad[B] # -1
          /\ last_used_pad[ret.sender] - last_used_pad[B] <= d

\* C13: the statements of one send are not interleaved with another's; in
\* particular, when two threads each send once for the same party, which has
\* one pad, and no one else sends, one call takes the pad (and returns a
\* ciphertext under it) and the other fails for want of pads.
C13_AtomicAllocation ==
    \A t, u \in Thread :
        (/\ t # u
         /\ calls[t].pc = "done" /\ calls[u].pc = "done"
         /\ calls[t].sender = calls[u].sender
         /\ Len(Distribution(n)[calls[t].sender]) = 1
         /\ calls[t].popped # <<>> /\ calls[t].exc = "")
        => /\ calls[u].popped = <<>>
           /\ calls[u].exc = NoPads(calls[u].sender)

\* C14: at construction every pad index in [0, n) is in some party's
\* allocation sequence.
C14_Coverage ==
    ret.op = "__init__" =>
        \A i \in 0 .. (n - 1) : \E p \in Party : i \in Range(parties[p])

\* C15: a send by party A, returning or failing, changes neither the pad
\* sequence nor any other party's queue or last used index.
C15_SendFrame ==
    [][ret'.op = "send_message" =>
        /\ UNCHANGED <<n, pad_sequence>>
        /\ \A p \in Party \ {ret'.sender} :
              /\ parties'[p] = parties[p]
              /\ last_used_pad'[p] = last_used_pad[p]
      ]_vars

\* C15 witness: a send failed on the pad lookup, having popped an index, when
\* another party had sent and a third still had indices queued.
C15_Witness ==
    /\ Sent /\ ret.exc = IndexError
    /\ \E p, q \in Party \ {ret.sender} :
          /\ p # q
          /\ last_used_pad[p] # -1
          /\ parties[q] # <<>>

\* How many entries of its allocation sequence party p has lost.
Taken(p) == Len(Distribution(n)[p]) - Len(parties[p])

\* C16: each party's queue is a suffix of its allocation sequence; its last
\* used index is -1 exactly when the queue is still the whole sequence, and
\* otherwise is the entry of the sequence just before that suffix.
C16_QueueLastUsed ==
    \A p \in Party :
        LET seq == Distribution(n)[p]
            k == Len(seq) - Len(parties[p])
        IN /\ k >= 0
           /\ parties[p] = SubSeq(seq, k + 1, Len(seq))
           /\ last_used_pad[p] = -1 <=> k = 0
           /\ k > 0 => last_used_pad[p] = seq[k]

\* C16 witness: one party has lost an entry and has some left, another has
\* lost all of its two or more, and a third with entries has not sent.
C16_Witness ==
    \E p, q, r \in Party :
        /\ Taken(p) >= 1 /\ parties[p] # <<>>
        /\ Taken(r) >= 2 /\ parties[r] = <<>>
        /\ Taken(q) = 0 /\ parties[q] # <<>> /\ last_used_pad[q] = -1

\* Every queue is empty.
AllEmpty == \A p \in Party : parties[p] = <<>>

RECURSIVE SumLen(_, _)
\* The sum of the lengths of the sequences f[p], p in S.
SumLen(f, S) ==
    IF S = {} THEN 0
    ELSE LET p == CHOOSE x \in S : TRUE IN Len(f[p]) + SumLen(f, S \ {p})

\* C17: the sends that took a pad are never more than the entries of the
\* four allocation sequences; if every party keeps attempting sends, all four
\* queues are eventually empty for good, and every send made once they are
\* empty fails for want of pads.
C17_EventualExhaustion ==
    /\ [](SumLen(used, Party) <= SumLen(Distribution(n), Party))
    /\ <>[]AllEmpty
    /\ [][(AllEmpty /\ ret'.op = "send_message") =>
            (ret'.exc = NoPads(ret'.sender) /\ AllEmpty')]_vars

\* C17 witness: every party has taken pads, the sends that took one are as
\* many as the entries of the four sequences, and a send has failed for want
\* of pads.
C17_Witness ==
    /\ AllEmpty
    /\ \A p \in Party : used[p] # <<>>
    /\ SumLen(used, Party) = SumLen(Distribution(n), Party)
    /\ Sent /\ ret.exc = NoPads(ret.sender)

====
